---------------------------- MODULE Spec2Model ----------------------------
(***************************************************************************)
(* Model of the BOBO CSV data simulator (src/bobosim.py) and of the roster *)
(* generator (src/generate_test_users.py).                                 *)
(*                                                                         *)
(* Three specifications share the definitions below:                       *)
(*   SpecStartup  main() of bobosim.py up to the installation of the       *)
(*                signal handlers: roster load, unknown-pool build, mkdir. *)
(*   SpecRun      the run loop of main(), started in states the startup    *)
(*                ends in, with signals and write failures.                *)
(*   SpecRoster   generate_test_users.py.                                  *)
(*                                                                         *)
(* A string is a sequence of characters; a character is a number: 0..9 are *)
(* the decimal digits, 10 is a letter, 11 is a blank.                      *)
(***************************************************************************)
EXTENDS Integers, Sequences, FiniteSets

VARIABLES
    roster,              \* the file test_users_athoc.csv as the loader finds it
    VALID_COLLAR_IDS,    \* global list, src/bobosim.py:29
    UNKNOWN_COLLAR_IDS,  \* global list, src/bobosim.py:30
    loaded,              \* what load_valid_collar_ids() returned
    pc,                  \* position of the simulator's control flow
    config,              \* load_env_config()
    run_counter,         \* main's run_counter
    clock,               \* wall clock, whole seconds
    disk,                \* output directory: filename -> file
    batch,               \* locals of the create_bobo_csv call in progress
    failures,            \* number of "Error creating CSV file" lines printed
    written,             \* filenames printed as "Output: ...", in order
    summary,             \* the line "... Total files created: N" was printed
    exit_code,           \* process exit status, -1 while running
    state,               \* run-loop state of spec section 4.6
    csv_file,            \* main's csv_file: the path create_bobo_csv returned, -1 for None
    gen                  \* generate_test_users.py: locals and position

vars == <<roster, VALID_COLLAR_IDS, UNKNOWN_COLLAR_IDS, loaded, pc, config,
          run_counter, clock, disk, batch, failures, written, summary,
          exit_code, state, csv_file, gen>>

simVars == <<roster, VALID_COLLAR_IDS, UNKNOWN_COLLAR_IDS, loaded, pc, config,
             run_counter, clock, disk, batch, failures, written, summary,
             exit_code, state, csv_file>>

(***************************************************************************)
(* Bounds                                                                  *)
(***************************************************************************)
MaxRosterRows == 2
MaxFileCount == 2
MaxEntries == 2
MaxUsers == 3
MaxCollar == 3

(***************************************************************************)
(* Strings                                                                 *)
(***************************************************************************)
Min(a, b) == IF a < b THEN a ELSE b
Max(a, b) == IF a > b THEN a ELSE b

Rep(x, n) == [i \in 1..n |-> x]

RECURSIVE Digits(_)
\* str(n) for n >= 0
Digits(n) == IF n < 10 THEN <<n>> ELSE Digits(n \div 10) \o <<n % 10>>

\* f"{n:05d}": at least five digits, zero-padded on the left
Format05(n) ==
    LET d == Digits(n)
    IN  IF Len(d) >= 5 THEN d ELSE Rep(0, 5 - Len(d)) \o d

\* int(s) raises ValueError unless s is a non-empty run of digits
IsInt(s) == Len(s) > 0 /\ \A i \in 1..Len(s) : s[i] \in 0..9

RECURSIVE IntOfPrefix(_, _)
\* the value of the first n digits of s
IntOfPrefix(s, n) == IF n = 0 THEN 0 ELSE 10 * IntOfPrefix(s, n - 1) + s[n]

\* int(s) for a run of digits
IntOf(s) == IntOfPrefix(s, Len(s))

RECURSIVE LStrip(_)
LStrip(s) == IF Len(s) > 0 /\ s[1] = 11 THEN LStrip(Tail(s)) ELSE s

RECURSIVE RStrip(_)
RStrip(s) == IF Len(s) > 0 /\ s[Len(s)] = 11 THEN RStrip(SubSeq(s, 1, Len(s) - 1)) ELSE s

\* str.strip()
Strip(s) == RStrip(LStrip(s))

Range(s) == {s[i] : i \in 1..Len(s)}

(***************************************************************************)
(* Roster loader, src/bobosim.py:54-80                                     *)
(***************************************************************************)
RECURSIVE CollectIds(_)
\* lines 68-73: the for loop over the data rows; a row is a list of fields
CollectIds(rows) ==
    IF rows = <<>> THEN <<>>
    ELSE LET row == rows[Len(rows)]
             before == CollectIds(SubSeq(rows, 1, Len(rows) - 1))
         IN  IF Len(row) >= 1 /\ Strip(row[1]) # <<>>
             THEN Append(before, Strip(row[1]))
             ELSE before

\* The rows a roster is made of: a blank line, and rows whose first field is
\* " ", "00001", " 100" or "x1".
RosterRowSet ==
    { <<>>, << <<11>> >>, << <<0, 0, 0, 0, 1>> >>, << <<11, 1, 0, 0>> >>,
      << <<10, 1>> >> }

RosterRowSeqs == UNION {[1..n -> RosterRowSet] : n \in 0..MaxRosterRows}

\* exists: the file is there; header: it has a first line; failAt = k >= 0:
\* reading raises an error after k data rows were read; failAt = -1: no error.
RosterFiles ==
    { [exists |-> FALSE, header |-> FALSE, rows |-> <<>>, failAt |-> -1],
      [exists |-> TRUE, header |-> FALSE, rows |-> <<>>, failAt |-> -1] }
    \cup UNION { { [exists |-> TRUE, header |-> TRUE, rows |-> r, failAt |-> k] :
                     k \in -1..Len(r) } : r \in RosterRowSeqs }

LoadResult(f) ==
    IF ~f.exists THEN [ok |-> FALSE, ids |-> <<>>]
    ELSE IF ~f.header THEN [ok |-> FALSE, ids |-> <<>>]
    ELSE IF f.failAt >= 0
         THEN [ok |-> FALSE, ids |-> CollectIds(SubSeq(f.rows, 1, f.failAt))]
    ELSE [ok |-> TRUE, ids |-> CollectIds(f.rows)]

load_valid_collar_ids ==
    /\ pc = "load"
    /\ VALID_COLLAR_IDS' = LoadResult(roster).ids
    /\ loaded' = LoadResult(roster).ok
    /\ pc' = IF LoadResult(roster).ok THEN "generate" ELSE "mkdir"
    /\ UNCHANGED <<csv_file, roster, UNKNOWN_COLLAR_IDS, config, run_counter, clock, disk,
                   batch, failures, written, summary, exit_code, state, gen>>

(***************************************************************************)
(* Unknown-ID pool builder, src/bobosim.py:82-118                          *)
(***************************************************************************)
\* lines 90-95
ValidIdsSet(valid) == {IntOf(valid[i]) : i \in {j \in 1..Len(valid) : IsInt(valid[j])}}

\* random.randint(lo, hi) as the pool builder and the record synthesizer use
\* it: the outcomes followed are the two ends of the range.
RandEnds(lo, hi) == {lo, hi}

\* BandIds without the test `unknown_id not in valid_ids_set`
BandIdsUnfiltered(lo, hi, attempts, k, validSet) ==
    Rep(Format05(lo), k) \o Rep(Format05(hi), attempts - k)

\* BandIds with one draw too many (range(attempts + 1))
BandIdsExtraDraw(lo, hi, attempts, k, validSet) ==
    (IF lo \notin validSet THEN Rep(Format05(lo), k + 1) ELSE <<>>)
    \o (IF hi \notin validSet THEN Rep(Format05(hi), attempts - k) ELSE <<>>)

\* One band (lines 101-104, 107-110, 113-116): `attempts` draws, k of them lo
\* and the others hi; a draw that is in the valid set is dropped, the others
\* are appended formatted.
BandIds(lo, hi, attempts, k, validSet) ==
    (IF lo \notin validSet THEN Rep(Format05(lo), k) ELSE <<>>)
    \o (IF hi \notin validSet THEN Rep(Format05(hi), attempts - k) ELSE <<>>)

BelowAttempts == 10
AboveAttempts == 10
InsideAttempts == 20

UnknownIds(valid, k1, k2, k3) ==
    LET s == ValidIdsSet(valid)
    IN  BandIds(1, 99, BelowAttempts, k1, s)
        \o BandIds(12001, 15000, AboveAttempts, k2, s)
        \o BandIds(100, 12000, InsideAttempts, k3, s)

generate_unknown_collar_ids ==
    /\ pc = "generate"
    /\ IF VALID_COLLAR_IDS = <<>>
       THEN UNCHANGED UNKNOWN_COLLAR_IDS
       ELSE \E k1 \in 0..BelowAttempts, k2 \in 0..AboveAttempts, k3 \in 0..InsideAttempts :
               UNKNOWN_COLLAR_IDS' = UnknownIds(VALID_COLLAR_IDS, k1, k2, k3)
    /\ pc' = "mkdir"
    /\ UNCHANGED <<csv_file, roster, VALID_COLLAR_IDS, loaded, config, run_counter, clock,
                   disk, batch, failures, written, summary, exit_code, state, gen>>

(***************************************************************************)
(* main, src/bobosim.py:246-285                                            *)
(***************************************************************************)
ensure_output_directory ==
    /\ pc = "mkdir"
    /\ \/ /\ pc' = "while"
          /\ state' = "RUNNING"
          /\ UNCHANGED exit_code
       \/ /\ pc' = "exited"
          /\ exit_code' = 1
          /\ UNCHANGED state
    /\ UNCHANGED <<csv_file, roster, VALID_COLLAR_IDS, UNKNOWN_COLLAR_IDS, loaded, config,
                   run_counter, clock, disk, batch, failures, written, summary, gen>>

NoBatch == [filename |-> -1, num_entries |-> 0, unknown_count |-> 0, ids |-> <<>>,
            rows |-> <<>>]
NoGen == [pc |-> "idle", num_users |-> 0, min_collar |-> 0, max_collar |-> 0,
          collar_ids |-> {}, file |-> <<>>]

\* DEFAULT_CONFIG scaled to the bounds of the model
DefaultConfig ==
    [SIMULATION_INTERVAL |-> 1, MIN_ENTRIES |-> 1, MAX_ENTRIES |-> MaxEntries,
     MAX_FILE_COUNT |-> MaxFileCount]

InitStartup ==
    /\ roster \in RosterFiles
    /\ VALID_COLLAR_IDS = <<>>
    /\ UNKNOWN_COLLAR_IDS = <<>>
    /\ loaded = FALSE
    /\ pc = "load"
    /\ config = DefaultConfig
    /\ run_counter = 0
    /\ clock = 0
    /\ disk = <<>>
    /\ batch = NoBatch
    /\ failures = 0
    /\ written = <<>>
    /\ summary = FALSE
    /\ exit_code = -1
    /\ state = "INITIALIZING"
    /\ csv_file = -1
    /\ gen = NoGen

NextStartup ==
    \/ load_valid_collar_ids
    \/ generate_unknown_collar_ids

SpecStartup == InitStartup /\ [][NextStartup]_vars

(***************************************************************************)
(* Batch composer and writer, src/bobosim.py:129-239                       *)
(***************************************************************************)
\* The clock counts half seconds; strftime('%Y%m%d_%H%M%S') keeps whole seconds.
TicksPerSecond == 2
Timestamp(t) == t \div TicksPerSecond

Injections(k, n) == {f \in [1..k -> 1..n] : \A a, b \in 1..k : a # b => f[a] # f[b]}

\* random.sample(population, k): k entries at distinct positions, in any order
Sample(population, k) ==
    {[a \in 1..k |-> population[f[a]]] : f \in Injections(k, Len(population))}

\* random.choices(population, k=k): k entries, with replacement
Choices(population, k) == [1..k -> Range(population)]

\* random.shuffle(s): every order of s
Shuffle(s) == {[a \in 1..Len(s) |-> s[f[a]]] : f \in Injections(Len(s), Len(s))}

\* CollarIdsToUse with remaining_entries computed from unknown_count instead
\* of from len(collar_ids_to_use)
CollarIdsToUseShortFill(num_entries, unknown_count) ==
    IF VALID_COLLAR_IDS = <<>> THEN {<<>>}
    ELSE LET unknowns ==
                 IF unknown_count > 0 /\ UNKNOWN_COLLAR_IDS # <<>>
                 THEN Sample(UNKNOWN_COLLAR_IDS,
                             Min(unknown_count, Len(UNKNOWN_COLLAR_IDS)))
                 ELSE {<<>>}
         IN  UNION { UNION { Shuffle(u \o v) :
                             v \in IF num_entries - unknown_count > 0
                                   THEN Choices(VALID_COLLAR_IDS, num_entries - unknown_count)
                                   ELSE {<<>>} } :
                     u \in unknowns }

\* lines 196-213: the lists collar_ids_to_use may be, with unknown_count
CollarIdsToUse(num_entries, unknown_count) ==
    IF VALID_COLLAR_IDS = <<>> THEN {<<>>}
    ELSE LET unknowns ==
                 IF unknown_count > 0 /\ UNKNOWN_COLLAR_IDS # <<>>
                 THEN Sample(UNKNOWN_COLLAR_IDS,
                             Min(unknown_count, Len(UNKNOWN_COLLAR_IDS)))
                 ELSE {<<>>}
         IN  UNION { UNION { Shuffle(u \o v) :
                             v \in IF num_entries - Len(u) > 0
                                   THEN Choices(VALID_COLLAR_IDS, num_entries - Len(u))
                                   ELSE {<<>>} } :
                     u \in unknowns }

\* lines 129-177: the record, reduced to its employee_id and to whether the
\* synthesizer drew the id itself (employee_id is None)
RandomEntries(employee_id) ==
    IF employee_id = <<>>
    THEN {[employee_id |-> Format05(r), drawn |-> TRUE] : r \in RandEnds(1, 99999)}
    ELSE {[employee_id |-> employee_id, drawn |-> FALSE]}

\* open(output_path, 'w'): the file is created or truncated
Opened(d, name, num_entries) ==
    [f \in DOMAIN d \cup {name} |->
        IF f = name THEN [rows |-> 0, want |-> num_entries] ELSE d[f]]

\* lines 183-213; random.randint raises ValueError when MIN_ENTRIES > MAX_ENTRIES,
\* which main catches at line 309
compose_batch ==
    /\ pc = "create"
    /\ IF config.MIN_ENTRIES > config.MAX_ENTRIES
       THEN /\ pc' = "final"
            /\ state' = "STOPPED_BY_ERROR"
            /\ UNCHANGED batch
       ELSE /\ \E n \in config.MIN_ENTRIES..config.MAX_ENTRIES :
                 \E uc \in IF VALID_COLLAR_IDS = <<>> THEN {0} ELSE 0..2 :
                    \E ids \in CollarIdsToUse(n, uc) :
                       batch' = [filename |-> Timestamp(clock), num_entries |-> n,
                                 unknown_count |-> uc, ids |-> ids, rows |-> <<>>]
            /\ pc' = "open"
            /\ UNCHANGED state
    /\ UNCHANGED <<csv_file, roster, VALID_COLLAR_IDS, UNKNOWN_COLLAR_IDS, loaded, config,
                   run_counter, clock, disk, failures, written, summary,
                   exit_code, gen>>

\* line 217
open_file ==
    /\ pc = "open"
    /\ disk' = Opened(disk, batch.filename, batch.num_entries)
    /\ pc' = "rows"
    /\ UNCHANGED <<csv_file, roster, VALID_COLLAR_IDS, UNKNOWN_COLLAR_IDS, loaded, config,
                   run_counter, clock, batch, failures, written, summary,
                   exit_code, state, gen>>

\* lines 221-228, one iteration
write_row ==
    /\ pc = "rows"
    /\ Len(batch.rows) < batch.num_entries
    /\ LET i == Len(batch.rows) + 1
           id == IF batch.ids # <<>> /\ i <= Len(batch.ids) THEN batch.ids[i] ELSE <<>>
       IN  \E entry \in RandomEntries(id) :
              batch' = [batch EXCEPT !.rows = Append(@, entry)]
    /\ disk' = [disk EXCEPT ![batch.filename].rows = @ + 1]
    /\ UNCHANGED <<csv_file, roster, VALID_COLLAR_IDS, UNKNOWN_COLLAR_IDS, loaded, pc, config,
                   run_counter, clock, failures, written, summary, exit_code,
                   state, gen>>

\* lines 229-235 and 295-296: range(num_entries) is exhausted (at once when
\* num_entries <= 0), the file is closed and its path printed
close_file ==
    /\ pc = "rows"
    /\ Len(batch.rows) >= batch.num_entries
    /\ written' = Append(written, batch.filename)
    /\ csv_file' = batch.filename
    /\ batch' = NoBatch
    /\ pc' = "check"
    /\ UNCHANGED <<roster, VALID_COLLAR_IDS, UNKNOWN_COLLAR_IDS, loaded, config,
                   run_counter, clock, disk, failures, summary, exit_code,
                   state, gen>>

\* write_error with the exception left to main's handler at line 309
write_error_aborts ==
    /\ \/ pc = "open"
       \/ pc = "rows" /\ Len(batch.rows) < batch.num_entries
    /\ failures' = failures + 1
    /\ batch' = NoBatch
    /\ pc' = "final"
    /\ state' = "STOPPED_BY_ERROR"
    /\ UNCHANGED <<csv_file, roster, VALID_COLLAR_IDS, UNKNOWN_COLLAR_IDS, loaded,
                   config, run_counter, clock, disk, written, summary, exit_code, gen>>

\* lines 237-239: open() or writerow() raised; the with statement has closed
\* the file with the rows written so far, and None is returned
write_error ==
    /\ \/ pc = "open"
       \/ pc = "rows" /\ Len(batch.rows) < batch.num_entries
    /\ failures' = failures + 1
    /\ csv_file' = -1
    /\ batch' = NoBatch
    /\ pc' = "check"
    /\ UNCHANGED <<roster, VALID_COLLAR_IDS, UNKNOWN_COLLAR_IDS, loaded, config,
                   run_counter, clock, disk, written, summary, exit_code,
                   state, gen>>

(***************************************************************************)
(* Run loop, src/bobosim.py:285-312, and signal handler, lines 241-244     *)
(***************************************************************************)
\* line 288, and line 290 when the loop is entered
loop_test ==
    /\ pc = "while"
    /\ IF run_counter < config.MAX_FILE_COUNT
       THEN /\ run_counter' = run_counter + 1
            /\ pc' = "create"
            /\ UNCHANGED state
       ELSE /\ pc' = "final"
            /\ state' = "STOPPED_BY_LIMIT"
            /\ UNCHANGED run_counter
    /\ UNCHANGED <<csv_file, roster, VALID_COLLAR_IDS, UNKNOWN_COLLAR_IDS, loaded, config,
                   clock, disk, batch, failures, written, summary, exit_code, gen>>

\* LimitReached with > for >=
LimitReachedOffByOne(counter, max_file_count) == counter > max_file_count

\* line 299
LimitReached(counter, max_file_count) == counter >= max_file_count

\* lines 299-305
check_limit ==
    /\ pc = "check"
    /\ IF LimitReached(run_counter, config.MAX_FILE_COUNT)
       THEN /\ pc' = "final"
            /\ state' = "STOPPED_BY_LIMIT"
       ELSE /\ pc' = "sleep"
            /\ UNCHANGED state
    /\ UNCHANGED <<csv_file, roster, VALID_COLLAR_IDS, UNKNOWN_COLLAR_IDS, loaded, config,
                   run_counter, clock, disk, batch, failures, written, summary,
                   exit_code, gen>>

\* line 305: time.sleep raises ValueError for a negative interval, which main
\* catches at line 309; otherwise at least the interval passes
sleep ==
    /\ pc = "sleep"
    /\ IF config.SIMULATION_INTERVAL < 0
       THEN /\ pc' = "final"
            /\ state' = "STOPPED_BY_ERROR"
            /\ UNCHANGED clock
       ELSE /\ \E late \in 0..1 :
                 clock' = clock + config.SIMULATION_INTERVAL * TicksPerSecond + late
            /\ pc' = "while"
            /\ UNCHANGED state
    /\ UNCHANGED <<csv_file, roster, VALID_COLLAR_IDS, UNKNOWN_COLLAR_IDS, loaded, config,
                   run_counter, disk, batch, failures, written, summary,
                   exit_code, gen>>

\* line 312, then main returns
shutdown_summary ==
    /\ pc = "final"
    /\ summary' = TRUE
    /\ pc' = "exited"
    /\ exit_code' = 0
    /\ UNCHANGED <<csv_file, roster, VALID_COLLAR_IDS, UNKNOWN_COLLAR_IDS, loaded, config,
                   run_counter, clock, disk, batch, failures, written, state, gen>>

HandlersInstalled == pc \in {"while", "create", "open", "rows", "check", "sleep", "final"}

\* lines 241-244: sys.exit(0) raises SystemExit in the main thread; neither
\* `except Exception` (lines 237, 309) nor `except KeyboardInterrupt` (line 307)
\* catches it; an open file is closed by its with statement on the way out
signal_handler ==
    /\ HandlersInstalled
    /\ pc' = "exited"
    /\ exit_code' = 0
    /\ state' = "STOPPED_BY_SIGNAL"
    /\ UNCHANGED <<csv_file, roster, VALID_COLLAR_IDS, UNKNOWN_COLLAR_IDS, loaded, config,
                   run_counter, clock, disk, batch, failures, written, summary, gen>>

Configs ==
    [SIMULATION_INTERVAL : -1..1, MIN_ENTRIES : -1..MaxEntries,
     MAX_ENTRIES : -1..MaxEntries, MAX_FILE_COUNT : -1..MaxFileCount]

Row(field) == <<field>>

NoRoster == [exists |-> FALSE, header |-> FALSE, rows |-> <<>>, failAt |-> -1]
BrokenRoster ==
    [exists |-> TRUE, header |-> TRUE,
     rows |-> <<Row(<<0, 0, 0, 0, 1>>), Row(<<10, 1>>)>>, failAt |-> 1]
SmallRoster ==
    [exists |-> TRUE, header |-> TRUE,
     rows |-> <<Row(<<11, 1, 0, 0>>)>>, failAt |-> -1]
WideRoster ==
    [exists |-> TRUE, header |-> TRUE,
     rows |-> <<Row(<<0, 0, 0, 0, 1>>), Row(<<1, 2, 0, 0, 1>>), Row(<<1, 0, 0>>)>>,
     failAt |-> -1]

\* The startups the run loop is started after: no roster file; a roster whose
\* second data row cannot be read (one valid ID, no unknown ID); the roster
\* " 100" with every draw of the pool builder the lower end of its band (20
\* unknown IDs); the roster "00001", "12001", "100" with one draw of 99 and
\* every other draw the lower end of its band (one unknown ID).
RunStartups ==
    { [roster |-> NoRoster, k1 |-> 0],
      [roster |-> BrokenRoster, k1 |-> 0],
      [roster |-> SmallRoster, k1 |-> BelowAttempts],
      [roster |-> WideRoster, k1 |-> BelowAttempts - 1] }

\* The state main is in at line 269 after these startups
InitRun ==
    /\ \E s \in RunStartups :
          /\ roster = s.roster
          /\ UNKNOWN_COLLAR_IDS =
               IF LoadResult(s.roster).ok /\ LoadResult(s.roster).ids # <<>>
               THEN UnknownIds(LoadResult(s.roster).ids, s.k1, AboveAttempts,
                               InsideAttempts)
               ELSE <<>>
    /\ VALID_COLLAR_IDS = LoadResult(roster).ids
    /\ loaded = LoadResult(roster).ok
    /\ pc = "mkdir"
    /\ config \in Configs
    /\ run_counter = 0
    /\ clock = 0
    /\ disk = <<>>
    /\ batch = NoBatch
    /\ failures = 0
    /\ written = <<>>
    /\ summary = FALSE
    /\ exit_code = -1
    /\ state = "INITIALIZING"
    /\ csv_file = -1
    /\ gen = NoGen

NextRun ==
    \/ ensure_output_directory
    \/ loop_test
    \/ compose_batch
    \/ open_file
    \/ write_row
    \/ close_file
    \/ write_error
    \/ check_limit
    \/ sleep
    \/ shutdown_summary
    \/ signal_handler

SpecRun == InitRun /\ [][NextRun]_vars

(***************************************************************************)
(* Roster generator, src/generate_test_users.py                            *)
(***************************************************************************)
RECURSIVE Sorted(_)
\* sorted(list(collar_ids))
Sorted(ids) ==
    IF ids = {} THEN <<>>
    ELSE LET least == CHOOSE x \in ids : \A y \in ids : x <= y
         IN  <<least>> \o Sorted(ids \ {least})

\* lines 45-48: the padded collar ID and the number the email starts with
RosterRows(ids) ==
    [i \in 1..Cardinality(ids) |->
        [collar_id |-> Format05(Sorted(ids)[i]), email |-> Sorted(ids)[i]]]

\* line 26
gen_start ==
    /\ gen.pc = "start"
    /\ gen' = [gen EXCEPT !.pc = "sampling", !.collar_ids = {}]
    /\ UNCHANGED simVars

\* lines 27-29, one iteration; random.randint raises ValueError on an empty
\* range, which main catches at line 77 and returns 1
gen_sample ==
    /\ gen.pc = "sampling"
    /\ Cardinality(gen.collar_ids) < gen.num_users
    /\ IF gen.min_collar > gen.max_collar
       THEN gen' = [gen EXCEPT !.pc = "failed"]
       ELSE \E collar_id \in gen.min_collar..gen.max_collar :
               gen' = [gen EXCEPT !.collar_ids = @ \cup {collar_id}]
    /\ UNCHANGED simVars

\* lines 32-48, when the loop at line 27 is left
gen_write ==
    /\ gen.pc = "sampling"
    /\ Cardinality(gen.collar_ids) >= gen.num_users
    /\ gen' = [gen EXCEPT !.pc = "report", !.file = RosterRows(gen.collar_ids)]
    /\ UNCHANGED simVars

\* lines 50-64 and 75-81; min() of an empty list raises ValueError at line 51
gen_report ==
    /\ gen.pc = "report"
    /\ gen' = [gen EXCEPT !.pc = IF gen.collar_ids = {} THEN "failed" ELSE "done"]
    /\ UNCHANGED simVars

InitRoster ==
    /\ gen \in [pc : {"start"}, num_users : 0..MaxUsers, min_collar : 1..MaxCollar,
                max_collar : 1..MaxCollar, collar_ids : {{}}, file : {<<>>}]
    /\ roster = NoRoster
    /\ VALID_COLLAR_IDS = <<>>
    /\ UNKNOWN_COLLAR_IDS = <<>>
    /\ loaded = FALSE
    /\ pc = "load"
    /\ config = DefaultConfig
    /\ run_counter = 0
    /\ clock = 0
    /\ disk = <<>>
    /\ batch = NoBatch
    /\ failures = 0
    /\ written = <<>>
    /\ summary = FALSE
    /\ exit_code = -1
    /\ state = "INITIALIZING"
    /\ csv_file = -1

NextRoster ==
    \/ gen_start
    \/ gen_sample
    \/ gen_write
    \/ gen_report

SpecRoster == InitRoster /\ [][NextRoster]_vars

(***************************************************************************)
(* Properties                                                              *)
(***************************************************************************)
Stopped == pc = "exited"

\* C1: the file counter never exceeds max(0, MAX_FILE_COUNT), the batches
\* attempted never outnumber it, and the inter-batch sleep is never entered
\* once the counter has reached MAX_FILE_COUNT.
C1_BoundedBatches ==
    /\ run_counter <= Max(0, config.MAX_FILE_COUNT)
    /\ failures + Len(written) <= run_counter
    /\ pc = "sleep" => run_counter < config.MAX_FILE_COUNT

C1_Witness ==
    /\ Stopped
    /\ state = "STOPPED_BY_LIMIT"
    /\ config.MAX_FILE_COUNT >= 2
    /\ run_counter = config.MAX_FILE_COUNT
    /\ clock > 0

\* C2: a process stopped by a termination signal has exit status 0 and has
\* printed the final summary line with the number of files created.
C2_SignalShutdownSummary ==
    (Stopped /\ state = "STOPPED_BY_SIGNAL") => (exit_code = 0 /\ summary)

\* C3: once the unknown pool is built from a loaded roster, and in every later
\* state, no unknown ID is a valid ID, neither as a string nor as a number.
C3_PoolsDisjoint ==
    (pc \notin {"load", "generate"} /\ loaded) =>
        /\ Range(UNKNOWN_COLLAR_IDS) \cap Range(VALID_COLLAR_IDS) = {}
        /\ \A u \in Range(UNKNOWN_COLLAR_IDS) : \A v \in Range(VALID_COLLAR_IDS) :
              IsInt(v) => IntOf(u) # IntOf(v)

C3_Witness ==
    /\ pc = "mkdir"
    /\ loaded
    /\ \E v \in Range(VALID_COLLAR_IDS) : ~IsInt(v)
    /\ \E v \in Range(VALID_COLLAR_IDS) : IsInt(v) /\ Len(v) < 5
    /\ Len(UNKNOWN_COLLAR_IDS) > 0
    /\ Len(UNKNOWN_COLLAR_IDS) < BelowAttempts + AboveAttempts + InsideAttempts

C5_FailedWritesCounted ==
    /\ state = "STOPPED_BY_ERROR" =>
          \/ config.MIN_ENTRIES > config.MAX_ENTRIES
          \/ config.SIMULATION_INTERVAL < 0
    /\ failures + Len(written) \in {run_counter - 1, run_counter}
    /\ pc \in {"check", "sleep", "while"} => failures + Len(written) = run_counter
    /\ state = "STOPPED_BY_LIMIT" =>
          /\ run_counter = Max(0, config.MAX_FILE_COUNT)
          /\ failures + Len(written) = run_counter

C5_Witness ==
    /\ Stopped
    /\ state = "STOPPED_BY_LIMIT"
    /\ summary
    /\ failures >= 1
    /\ Len(written) >= 1
    /\ run_counter = config.MAX_FILE_COUNT

\* C6: after a failed roster load the valid-ID list is empty, no unknown pool
\* exists, and every row written carries an ID the synthesizer drew itself.
C6_FailedLoadAllRandom ==
    (pc # "load" /\ ~loaded) =>
        /\ VALID_COLLAR_IDS = <<>>
        /\ UNKNOWN_COLLAR_IDS = <<>>
        /\ \A i \in 1..Len(batch.rows) : batch.rows[i].drawn

\* C7: the filenames of the batches written are pairwise distinct.
C7_DistinctFilenames ==
    \A i, j \in 1..Len(written) : i # j => written[i] # written[j]

\* C8: the roster generator is never in its sampling loop with more IDs
\* requested than the range [min_collar, max_collar] holds.
C8_NoHopelessSampling ==
    (gen.pc = "sampling" /\ gen.min_collar <= gen.max_collar) =>
        gen.num_users <= gen.max_collar - gen.min_collar + 1

\* C9 as stated: the pool built from a non-empty valid list always has the
\* size 10 + 10 + 20.
C9_FixedPoolSize ==
    (pc = "mkdir" /\ loaded /\ VALID_COLLAR_IDS # <<>>) =>
        Len(UNKNOWN_COLLAR_IDS) = BelowAttempts + AboveAttempts + InsideAttempts

\* how many entries of the pool are the format of a number of lo..hi
BandCount(lo, hi) ==
    LET inBand == {u \in Range(UNKNOWN_COLLAR_IDS) : lo <= IntOf(u) /\ IntOf(u) <= hi}
    IN  Cardinality({i \in 1..Len(UNKNOWN_COLLAR_IDS) : UNKNOWN_COLLAR_IDS[i] \in inBand})

\* C9, amended: the pool built from a non-empty valid list holds at most 10,
\* 10 and 20 IDs of the bands 1-99, 12001-15000 and 100-12000 and nothing
\* else, and holds exactly that many when no valid ID lies in 1-15000.
C9_PoolWithinTargets ==
    (pc = "mkdir" /\ loaded /\ VALID_COLLAR_IDS # <<>>) =>
        LET below == BandCount(1, 99)
            above == BandCount(12001, 15000)
            inside == BandCount(100, 12000)
        IN  /\ below <= BelowAttempts
            /\ above <= AboveAttempts
            /\ inside <= InsideAttempts
            /\ Len(UNKNOWN_COLLAR_IDS) = below + above + inside
            /\ (\A v \in ValidIdsSet(VALID_COLLAR_IDS) : v < 1 \/ v > 15000) =>
                  Len(UNKNOWN_COLLAR_IDS) = BelowAttempts + AboveAttempts + InsideAttempts

C9_Witness ==
    /\ pc = "mkdir"
    /\ loaded
    /\ BandCount(1, 99) = BelowAttempts
    /\ BandCount(12001, 15000) = AboveAttempts
    /\ BandCount(100, 12000) = InsideAttempts - 3

\* C10: once the process has stopped, every output file holds as many rows
\* as were chosen for the batch it was opened for (none for a negative count).
C10_NoPartialFiles ==
    Stopped => \A f \in DOMAIN disk : disk[f].rows = Max(0, disk[f].want)

=============================================================================
